---- MODULE Spec2Model ----
(***************************************************************************)
(* Model of recgov_daemon's daemon.py: the campground registry built by    *)
(* get_all_campgrounds_by_id, the polling cycle of compare_availability,   *)
(* the notifier send_email_alert, and the __main__ loop with its SIGINT    *)
(* handler exit_gracefully.                                                *)
(***************************************************************************)
EXTENDS Integers, Sequences, FiniteSets, TLC

VARIABLES
    user_facs,        \* args.campground_ids as parsed (None or list of <<name, id>>)
    ridb_facilities,  \* result of the RIDB lookup (None or list of <<name, id>>)
    campgrounds,      \* the registry: sequence of Campground records
    driver,           \* "none" | "open" | "closed": the selenium WebDriver
    closeCount,       \* history: number of driver.close() calls
    pc,               \* position of the main program
    status,           \* "running" | "exited"
    exitCode,         \* process exit status (-1 while running)
    exitCause,        \* history: why the process ended
    idx,              \* position of compare_availability's for loop (1-based)
    available,        \* compare_availability's local list: registry indices
    cycle,            \* number of cycles started
    datePassed,       \* args.start_date < datetime.now()
    notified,         \* history: one record per send_email_alert invocation
    flipped,          \* history: entries whose flag went false->true this cycle
    dispatches,       \* history: mail dispatch attempts in this cycle
    lastDispatch,     \* history: "none" | "sent" | "failed" for this cycle
    failedBatch,      \* history: entries of batches whose dispatch failed
    shutdownLog       \* history: one record per exit_gracefully invocation

vars == <<user_facs, ridb_facilities, campgrounds, driver, closeCount, pc, status,
          exitCode, exitCause, idx, available, cycle, datePassed, notified,
          flipped, dispatches, lastDispatch, failedBatch, shutdownLog>>

----------------------------------------------------------------------------
(* Bounds *)

MaxCycles == 3
MaxLen == 2
MaxCalls == 4

----------------------------------------------------------------------------
(* Program constants and values *)

None == [present |-> FALSE, facs |-> <<>>]
Some(s) == [present |-> TRUE, facs |-> s]

USER_NAME == "Name Unknown"
RIDB_NAME == "Kirk Creek"
FacilityIds == {"233116", "231962", "232769"}
FacilityNames == {USER_NAME, RIDB_NAME}

Range(s) == {s[k] : k \in DOMAIN s}

\* sequences of ids without repetition, of length at most n
DistinctIdSeqs(ids, n) ==
    {s \in UNION {[1..k -> ids] : k \in 0..n} : Cardinality(Range(s)) = Len(s)}

\* lists of <<name, id>> pairs over the given names, ids not repeated
FacilityLists(names, ids, n) ==
    UNION {{[k \in 1..Len(s) |-> <<nm[k], s[k]>>] : nm \in [1..Len(s) -> names]}
           : s \in DistinctIdSeqs(ids, n)}

----------------------------------------------------------------------------
(* The Campground record and the registry construction *)

Campground(name, facility_id) ==
    [name |-> name, facility_id |-> facility_id, available |-> FALSE]

\* what a scrape_campground call can do: return True, return False, or fail
ScrapeOutcomes == {"True", "False", "ScrapeError"}

\* list.remove(x): drop the first element equal to x
RECURSIVE ListRemove(_, _)
ListRemove(list, x) ==
    IF list = <<>> THEN <<>>
    ELSE IF Head(list) = x THEN Tail(list)
    ELSE <<Head(list)>> \o ListRemove(Tail(list), x)

\* the for loop of lines 100-104: the iterator is an index into the list that
\* is being mutated, so after a remove the element that slid into position i
\* is never visited.
RECURSIVE RemoveRidbDuplicates(_, _, _)
RemoveRidbDuplicates(facs, i, ridb_facs_ids) ==
    IF i > Len(facs) THEN facs
    ELSE IF facs[i][2] \in ridb_facs_ids
         THEN RemoveRidbDuplicates(ListRemove(facs, facs[i]), i + 1, ridb_facs_ids)
         ELSE RemoveRidbDuplicates(facs, i + 1, ridb_facs_ids)

ConcatRidbFirst(user, ridb) == ridb \o user

ConcatFacilities(user, ridb) == user \o ridb

\* facilities chosen by lines 97-109 (both-None is handled by the caller action)
Facilities(u, r) ==
    IF r.present /\ u.present
    THEN ConcatFacilities(
            RemoveRidbDuplicates(u.facs, 1, {r.facs[k][2] : k \in DOMAIN r.facs}),
            r.facs)
    ELSE IF ~r.present /\ u.present THEN u.facs
    ELSE r.facs

get_all_campgrounds_by_id(u, r) ==
    LET facilities == Facilities(u, r)
    IN  [k \in 1..Len(facilities) |-> Campground(facilities[k][1], facilities[k][2])]

----------------------------------------------------------------------------
(* Initial states *)

InitRest ==
    /\ campgrounds = <<>>
    /\ driver = "none"
    /\ closeCount = 0
    /\ pc = "build_registry"
    /\ status = "running"
    /\ exitCode = -1
    /\ exitCause = "none"
    /\ idx = 0
    /\ available = <<>>
    /\ cycle = 0
    /\ datePassed \in BOOLEAN
    /\ notified = <<>>
    /\ flipped = {}
    /\ dispatches = 0
    /\ lastDispatch = "none"
    /\ failedBatch = {}
    /\ shutdownLog = <<>>

\* parse_id_args gives every user id the same placeholder name and never an
\* empty list; the RIDB lookup may return an empty list.
DaemonUserArgs ==
    {None} \cup {Some(s) : s \in FacilityLists({USER_NAME}, {"233116", "231962"}, MaxLen) \ {<<>>}}
DaemonRidbResults ==
    {None} \cup {Some(s) : s \in FacilityLists({RIDB_NAME}, {"233116", "231962"}, MaxLen)}

Init ==
    /\ user_facs \in DaemonUserArgs
    /\ ridb_facilities \in DaemonRidbResults
    /\ InitRest

\* inputs for checking the registry construction on its own
RegistryInputs ==
    {None} \cup {Some(s) : s \in FacilityLists(FacilityNames, FacilityIds, MaxLen + 1)}

InitRegistry ==
    /\ user_facs \in RegistryInputs
    /\ ridb_facilities \in RegistryInputs
    /\ InitRest

----------------------------------------------------------------------------
(* __main__: startup *)

Running(p) == status = "running" /\ pc = p

ProcessVars == <<status, exitCode, exitCause>>
CycleVars == <<idx, available, cycle, flipped, dispatches, lastDispatch>>
HistoryVars == <<notified, failedBatch, shutdownLog>>
InputVars == <<user_facs, ridb_facilities>>

\* line 206, a source present: the registry is built
BuildRegistry ==
    /\ Running("build_registry")
    /\ user_facs.present \/ ridb_facilities.present
    /\ campgrounds' = get_all_campgrounds_by_id(user_facs, ridb_facilities)
    /\ pc' = "create_driver"
    /\ UNCHANGED <<InputVars, driver, closeCount, ProcessVars, CycleVars,
                   datePassed, HistoryVars>>

\* the else branch returning an empty registry instead of raising
BuildRegistryEmpty ==
    /\ Running("build_registry")
    /\ ~user_facs.present /\ ~ridb_facilities.present
    /\ campgrounds' = <<>>
    /\ pc' = "create_driver"
    /\ UNCHANGED <<InputVars, driver, closeCount, ProcessVars, CycleVars,
                   datePassed, HistoryVars>>

\* line 206 and 110-111, both sources None: ValueError, uncaught
BuildRegistryFails ==
    /\ Running("build_registry")
    /\ ~user_facs.present /\ ~ridb_facilities.present
    /\ status' = "exited"
    /\ exitCode' = 1
    /\ exitCause' = "config_error"
    /\ UNCHANGED <<InputVars, campgrounds, driver, closeCount, pc, CycleVars,
                   datePassed, HistoryVars>>

\* line 209
CreateDriver ==
    /\ Running("create_driver")
    /\ driver' = "open"
    /\ pc' = "date_check"
    /\ UNCHANGED <<InputVars, campgrounds, closeCount, ProcessVars, CycleVars,
                   datePassed, HistoryVars>>

\* wall-clock time moves past args.start_date
ClockPasses ==
    /\ status = "running"
    /\ ~datePassed
    /\ datePassed' = TRUE
    /\ UNCHANGED <<InputVars, campgrounds, driver, closeCount, pc, ProcessVars,
                   CycleVars, HistoryVars>>

----------------------------------------------------------------------------
(* __main__: the polling loop, lines 216-221 *)

\* what one exit_gracefully invocation is remembered by: its signal_received
\* argument and whether close_this_driver was a driver
Shutdown(signal_received, close_this_driver) ==
    [signal_received |-> signal_received, with_driver |-> close_this_driver # "none"]

\* the body of the if left out: the loop goes on to the cycle
DateCheckPassedRunsCycle ==
    /\ Running("date_check")
    /\ datePassed
    /\ cycle < MaxCycles
    /\ cycle' = cycle + 1
    /\ available' = <<>>
    /\ idx' = 1
    /\ flipped' = {}
    /\ dispatches' = 0
    /\ lastDispatch' = "none"
    /\ pc' = "for_campground"
    /\ UNCHANGED <<InputVars, campgrounds, driver, closeCount, ProcessVars,
                   datePassed, HistoryVars>>

\* `continue` in place of the exit: the loop waits and checks again
DateCheckPassedKeepsLooping ==
    /\ Running("date_check")
    /\ datePassed
    /\ pc' = "sleep"
    /\ UNCHANGED <<InputVars, campgrounds, driver, closeCount, ProcessVars,
                   CycleVars, datePassed, HistoryVars>>

\* lines 217-219: the date has passed, exit_gracefully(None, None, driver)
DateCheckPassed ==
    /\ Running("date_check")
    /\ datePassed
    /\ pc' = "exit_gracefully"
    /\ shutdownLog' = Append(shutdownLog, Shutdown("None", driver))
    /\ UNCHANGED <<InputVars, campgrounds, driver, closeCount, ProcessVars,
                   CycleVars, datePassed, notified, failedBatch>>

\* lines 217, 220 and 129: the date has not passed, compare_availability starts
DateCheckContinue ==
    /\ Running("date_check")
    /\ ~datePassed
    /\ cycle < MaxCycles
    /\ cycle' = cycle + 1
    /\ available' = <<>>
    /\ idx' = 1
    /\ flipped' = {}
    /\ dispatches' = 0
    /\ lastDispatch' = "none"
    /\ pc' = "for_campground"
    /\ UNCHANGED <<InputVars, campgrounds, driver, closeCount, ProcessVars,
                   datePassed, HistoryVars>>

\* line 221: sleep(RETRY_WAIT) returns
Sleep ==
    /\ Running("sleep")
    /\ pc' = "date_check"
    /\ UNCHANGED <<InputVars, campgrounds, driver, closeCount, ProcessVars,
                   CycleVars, datePassed, HistoryVars>>

----------------------------------------------------------------------------
(* compare_availability, lines 121-142 *)

InPass == Running("for_campground") /\ idx <= Len(campgrounds)

\* a re-check that writes the scrape result back into the flag
SkipAvailableRechecks ==
    /\ InPass
    /\ campgrounds[idx].available
    /\ campgrounds' = [campgrounds EXCEPT ![idx].available = FALSE]
    /\ idx' = idx + 1
    /\ UNCHANGED <<InputVars, driver, closeCount, pc, ProcessVars, available, cycle,
                   flipped, dispatches, lastDispatch, datePassed, HistoryVars>>

\* lines 131-132: the campground is already available, it is skipped
SkipAvailable ==
    /\ InPass
    /\ campgrounds[idx].available
    /\ idx' = idx + 1
    /\ UNCHANGED <<InputVars, campgrounds, driver, closeCount, pc, ProcessVars,
                   available, cycle, flipped, dispatches, lastDispatch, datePassed,
                   HistoryVars>>

\* the checker called without looking at the flag
InvokeCheckerUnguarded ==
    /\ InPass
    /\ pc' = "scrape"
    /\ UNCHANGED <<InputVars, campgrounds, driver, closeCount, ProcessVars, CycleVars,
                   datePassed, HistoryVars>>

\* line 133: not available, scrape_campground is called
InvokeChecker ==
    /\ InPass
    /\ ~campgrounds[idx].available
    /\ pc' = "scrape"
    /\ UNCHANGED <<InputVars, campgrounds, driver, closeCount, ProcessVars, CycleVars,
                   datePassed, HistoryVars>>

\* line 133: scrape_campground returned True
ScrapeReturnsTrue ==
    /\ Running("scrape")
    /\ "True" \in ScrapeOutcomes
    /\ pc' = "set_available"
    /\ UNCHANGED <<InputVars, campgrounds, driver, closeCount, ProcessVars, CycleVars,
                   datePassed, HistoryVars>>

\* the test inverted: a False result marks the campground
ScrapeReturnsFalseFlips ==
    /\ Running("scrape")
    /\ "False" \in ScrapeOutcomes
    /\ campgrounds' = [campgrounds EXCEPT ![idx].available = TRUE]
    /\ idx' = idx + 1
    /\ pc' = "for_campground"
    /\ UNCHANGED <<InputVars, driver, closeCount, ProcessVars, available, cycle,
                   flipped, dispatches, lastDispatch, datePassed, HistoryVars>>

\* lines 133, 138-139: scrape_campground returned False
ScrapeReturnsFalse ==
    /\ Running("scrape")
    /\ "False" \in ScrapeOutcomes
    /\ idx' = idx + 1
    /\ pc' = "for_campground"
    /\ UNCHANGED <<InputVars, campgrounds, driver, closeCount, ProcessVars, available,
                   cycle, flipped, dispatches, lastDispatch, datePassed, HistoryVars>>

\* line 133: scrape_campground raised; nothing between it and the top of the
\* program catches the exception
ScrapeRaises ==
    /\ Running("scrape")
    /\ "ScrapeError" \in ScrapeOutcomes
    /\ status' = "exited"
    /\ exitCode' = 1
    /\ exitCause' = "scrape_error"
    /\ UNCHANGED <<InputVars, campgrounds, driver, closeCount, pc, CycleVars,
                   datePassed, HistoryVars>>

\* the flag assignment left out
SetAvailableForgets ==
    /\ Running("set_available")
    /\ flipped' = flipped \cup {idx}
    /\ pc' = "append"
    /\ UNCHANGED <<InputVars, campgrounds, driver, closeCount, ProcessVars, idx,
                   available, cycle, dispatches, lastDispatch, datePassed, HistoryVars>>

\* line 135: campground.available = True
SetAvailable ==
    /\ Running("set_available")
    /\ campgrounds' = [campgrounds EXCEPT ![idx].available = TRUE]
    /\ flipped' = flipped \cup {idx}
    /\ pc' = "append"
    /\ UNCHANGED <<InputVars, driver, closeCount, ProcessVars, idx, available, cycle,
                   dispatches, lastDispatch, datePassed, HistoryVars>>

\* the append left out
AppendAvailableSkips ==
    /\ Running("append")
    /\ idx' = idx + 1
    /\ pc' = "for_campground"
    /\ UNCHANGED <<InputVars, campgrounds, driver, closeCount, ProcessVars, available,
                   cycle, flipped, dispatches, lastDispatch, datePassed, HistoryVars>>

\* lines 136-137: available.append(campground)
AppendAvailable ==
    /\ Running("append")
    /\ available' = Append(available, idx)
    /\ idx' = idx + 1
    /\ pc' = "for_campground"
    /\ UNCHANGED <<InputVars, campgrounds, driver, closeCount, ProcessVars, cycle,
                   flipped, dispatches, lastDispatch, datePassed, HistoryVars>>

PassDone == Running("for_campground") /\ idx > Len(campgrounds)

\* what one send_email_alert invocation is remembered by
Invocation(batch) ==
    [batch |-> batch, cycle |-> cycle,
     allAvailable |-> \A k \in DOMAIN batch : campgrounds[batch[k]].available]

\* lines 141-142 indented into the for loop: the alert goes out as soon as the
\* batch is not empty
EndOfPassNotifyEarly ==
    /\ Running("for_campground")
    /\ Len(available) > 0
    /\ notified' = Append(notified, Invocation(available))
    /\ pc' = "dispatch"
    /\ UNCHANGED <<InputVars, campgrounds, driver, closeCount, ProcessVars, CycleVars,
                   datePassed, failedBatch, shutdownLog>>

\* lines 141-142 and 64-72: the batch is not empty, send_email_alert is called
\* and builds its message
EndOfPassNotify ==
    /\ PassDone
    /\ Len(available) > 0
    /\ notified' = Append(notified, Invocation(available))
    /\ pc' = "dispatch"
    /\ UNCHANGED <<InputVars, campgrounds, driver, closeCount, ProcessVars, CycleVars,
                   datePassed, failedBatch, shutdownLog>>

\* the test written as len(available) >= 0
EndOfPassNotifiesEmpty ==
    /\ PassDone
    /\ Len(available) = 0
    /\ notified' = Append(notified, Invocation(available))
    /\ pc' = "dispatch"
    /\ UNCHANGED <<InputVars, campgrounds, driver, closeCount, ProcessVars, CycleVars,
                   datePassed, failedBatch, shutdownLog>>

\* line 141: the batch is empty, compare_availability returns
EndOfPassNoBatch ==
    /\ PassDone
    /\ Len(available) = 0
    /\ pc' = "sleep"
    /\ UNCHANGED <<InputVars, campgrounds, driver, closeCount, ProcessVars, CycleVars,
                   datePassed, HistoryVars>>

----------------------------------------------------------------------------
(* send_email_alert, lines 74-82 *)

\* lines 75-80: the mail went out
DispatchSucceeds ==
    /\ Running("dispatch")
    /\ dispatches' = dispatches + 1
    /\ lastDispatch' = "sent"
    /\ pc' = "sleep"
    /\ UNCHANGED <<InputVars, campgrounds, driver, closeCount, ProcessVars, idx,
                   available, cycle, flipped, datePassed, HistoryVars>>

\* the except clause left out: the transport exception ends the process
DispatchFailsPropagates ==
    /\ Running("dispatch")
    /\ dispatches' = dispatches + 1
    /\ lastDispatch' = "failed"
    /\ failedBatch' = failedBatch \cup Range(available)
    /\ status' = "exited"
    /\ exitCode' = 1
    /\ exitCause' = "mail_error"
    /\ UNCHANGED <<InputVars, campgrounds, driver, closeCount, pc, idx, available,
                   cycle, flipped, datePassed, notified, shutdownLog>>

\* lines 75-79 raise, lines 81-82 catch and log; send_email_alert returns
DispatchFails ==
    /\ Running("dispatch")
    /\ dispatches' = dispatches + 1
    /\ lastDispatch' = "failed"
    /\ failedBatch' = failedBatch \cup Range(available)
    /\ pc' = "sleep"
    /\ UNCHANGED <<InputVars, campgrounds, driver, closeCount, ProcessVars, idx,
                   available, cycle, flipped, datePassed, notified, shutdownLog>>

----------------------------------------------------------------------------
(* exit_gracefully, lines 32-49 *)

\* lines 47-48 for a given close_this_driver ("none" stands for None)
DriverAfter(close_this_driver) ==
    IF close_this_driver # "none" THEN "closed" ELSE driver
CloseCountAfter(close_this_driver) ==
    IF close_this_driver # "none" THEN closeCount + 1 ELSE closeCount

\* lines 47-48, called from line 219 with the driver
ExitGracefullyClose ==
    /\ Running("exit_gracefully")
    /\ driver' = DriverAfter(driver)
    /\ closeCount' = CloseCountAfter(driver)
    /\ pc' = "sys_exit"
    /\ UNCHANGED <<InputVars, campgrounds, ProcessVars, CycleVars, datePassed,
                   HistoryVars>>

\* line 49, on the date-passed path
SysExit ==
    /\ Running("sys_exit")
    /\ status' = "exited"
    /\ exitCode' = 0
    /\ exitCause' = "date_passed"
    /\ UNCHANGED <<InputVars, campgrounds, driver, closeCount, pc, CycleVars,
                   datePassed, HistoryVars>>

\* lines 167 and 43-49: SIGINT arrives, the handler runs as
\* exit_gracefully(signum, frame) with close_this_driver left at None, and
\* sys.exit(0) unwinds the main program from wherever it was
\* the handler without its sys.exit(0): it logs and returns to the program
SIGINTReturns ==
    /\ status = "running"
    /\ exitCause' = "interrupt"
    /\ shutdownLog' = IF exitCause = "interrupt" THEN shutdownLog
                      ELSE Append(shutdownLog, Shutdown("SIGINT", "none"))
    /\ driver' = DriverAfter("none")
    /\ closeCount' = CloseCountAfter("none")
    /\ UNCHANGED <<InputVars, campgrounds, pc, status, exitCode, CycleVars,
                   datePassed, notified, failedBatch>>

SIGINT ==
    /\ status = "running"
    /\ status' = "exited"
    /\ exitCode' = 0
    /\ exitCause' = "interrupt"
    /\ shutdownLog' = Append(shutdownLog, Shutdown("SIGINT", "none"))
    /\ driver' = DriverAfter("none")
    /\ closeCount' = CloseCountAfter("none")
    /\ UNCHANGED <<InputVars, campgrounds, pc, CycleVars, datePassed, notified,
                   failedBatch>>

\* exit_gracefully called on its own, as a test of the routine calls it: with
\* either signal_received, and with None or the session's driver; the caller
\* catches the SystemExit of line 49 and may call again
InitShutdown ==
    /\ user_facs = None
    /\ ridb_facilities = None
    /\ campgrounds = <<>>
    /\ driver \in {"none", "open"}
    /\ closeCount = 0
    /\ pc = "call_exit_gracefully"
    /\ status = "running"
    /\ exitCode = -1
    /\ exitCause = "none"
    /\ idx = 0
    /\ available = <<>>
    /\ cycle = 0
    /\ datePassed = FALSE
    /\ notified = <<>>
    /\ flipped = {}
    /\ dispatches = 0
    /\ lastDispatch = "none"
    /\ failedBatch = {}
    /\ shutdownLog = <<>>

\* lines 43-49 for one call
CallExitGracefully(signal_received, close_this_driver) ==
    /\ Running("call_exit_gracefully")
    /\ Len(shutdownLog) < MaxCalls
    /\ shutdownLog' = Append(shutdownLog, Shutdown(signal_received, close_this_driver))
    /\ driver' = DriverAfter(close_this_driver)
    /\ closeCount' = CloseCountAfter(close_this_driver)
    /\ exitCode' = 0
    /\ UNCHANGED <<InputVars, campgrounds, pc, status, exitCause, CycleVars,
                   datePassed, notified, failedBatch>>

----------------------------------------------------------------------------
(* Specifications *)

Next ==
    \/ BuildRegistry
    \/ BuildRegistryFails
    \/ CreateDriver
    \/ ClockPasses
    \/ DateCheckPassed
    \/ DateCheckContinue
    \/ Sleep
    \/ SkipAvailable
    \/ InvokeChecker
    \/ ScrapeReturnsTrue
    \/ ScrapeReturnsFalse
    \/ ScrapeRaises
    \/ SetAvailable
    \/ AppendAvailable
    \/ EndOfPassNotify
    \/ EndOfPassNoBatch
    \/ DispatchSucceeds
    \/ DispatchFails
    \/ ExitGracefullyClose
    \/ SysExit
    \/ SIGINT

Spec == Init /\ [][Next]_vars

\* the registry construction alone, over every pair of sources
NextRegistry ==
    \/ BuildRegistry
    \/ BuildRegistryFails

SpecRegistry == InitRegistry /\ [][NextRegistry]_vars

\* the program takes its next step whenever it has one, and the wall clock
\* goes past the start date
Program ==
    \/ BuildRegistry
    \/ BuildRegistryFails
    \/ CreateDriver
    \/ DateCheckPassed
    \/ DateCheckContinue
    \/ Sleep
    \/ SkipAvailable
    \/ InvokeChecker
    \/ ScrapeReturnsTrue
    \/ ScrapeReturnsFalse
    \/ ScrapeRaises
    \/ SetAvailable
    \/ AppendAvailable
    \/ EndOfPassNotify
    \/ EndOfPassNoBatch
    \/ DispatchSucceeds
    \/ DispatchFails
    \/ ExitGracefullyClose
    \/ SysExit

SpecLive == Init /\ [][Next]_vars /\ WF_vars(Program) /\ WF_vars(ClockPasses)

\* the shutdown routine alone
NextShutdown ==
    \E signal_received \in {"None", "SIGINT"}, close_this_driver \in {"none", driver} :
        CallExitGracefully(signal_received, close_this_driver)

SpecShutdown == InitShutdown /\ [][NextShutdown]_vars

----------------------------------------------------------------------------
(* Properties of the registry construction (checked under SpecRegistry) *)

Built == pc = "create_driver"
BothPresent == user_facs.present /\ ridb_facilities.present
IdsOf(facs) == {facs[k][2] : k \in DOMAIN facs}
NoRepeatedIds(facs) == \A i, j \in DOMAIN facs : facs[i][2] = facs[j][2] => i = j
Pairs(reg) == [k \in DOMAIN reg |-> <<reg[k].name, reg[k].facility_id>>]
NotInRidb(f) == f[2] \notin IdsOf(ridb_facilities.facs)

\* C1: with both sources present and neither repeating an id, the registry
\* that get_all_campgrounds_by_id returns has no two campgrounds with the
\* same facility id.
C1_UniqueFacilityIds ==
    (Built /\ BothPresent /\ NoRepeatedIds(user_facs.facs)
           /\ NoRepeatedIds(ridb_facilities.facs))
    => \A i, j \in DOMAIN campgrounds :
          campgrounds[i].facility_id = campgrounds[j].facility_id => i = j

\* C2: with both sources present the registry is exactly the user entries
\* whose id is not a discovered id, in their order, followed by every
\* discovered entry in its order.
C2_RemainderThenDiscovered ==
    (Built /\ BothPresent /\ NoRepeatedIds(user_facs.facs)
           /\ NoRepeatedIds(ridb_facilities.facs))
    => Pairs(campgrounds) = SelectSeq(user_facs.facs, NotInRidb) \o ridb_facilities.facs

ScenarioBuilt ==
    /\ Built
    /\ user_facs = Some(<< <<"Name Unknown", "233116">>, <<"Name Unknown", "231962">> >>)
    /\ ridb_facilities = Some(<< <<"Kirk Creek", "233116">> >>)

\* C3 as stated: the scenario yields Kirk Creek 233116 first, then
\* Name Unknown 231962.
C3_ScenarioDiscoveredFirst ==
    ScenarioBuilt
    => Pairs(campgrounds) = << <<"Kirk Creek", "233116">>, <<"Name Unknown", "231962">> >>

\* C3 as amended: the scenario yields Name Unknown 231962 first (the user
\* remainder), then Kirk Creek 233116 (the discovered entry).
C3_ScenarioRemainderFirst ==
    ScenarioBuilt
    => Pairs(campgrounds) = << <<"Name Unknown", "231962">>, <<"Kirk Creek", "233116">> >>

C3_Witness == ScenarioBuilt /\ Len(campgrounds) = 2

----------------------------------------------------------------------------
(* Properties of the polling loop (checked under Spec) *)

InvocationsOfCycle(c) == {n \in DOMAIN notified : notified[n].cycle = c}
Occurrences(k) ==
    Cardinality({nj \in UNION {{<<n, j>> : j \in DOMAIN notified[n].batch}
                                : n \in DOMAIN notified}
                 : notified[nj[1]].batch[nj[2]] = k})

\* C4: a campground whose available flag is true keeps it true in every
\* later state, whatever later cycles, checker results or mail failures do.
C4_AvailableMonotonic ==
    [][\A k \in DOMAIN campgrounds :
          campgrounds[k].available
          => (k \in DOMAIN campgrounds' /\ campgrounds'[k].available)]_vars

C4_Witness ==
    /\ Running("sleep")
    /\ cycle >= 2
    /\ \E k \in DOMAIN campgrounds :
          campgrounds[k].available /\ k \in failedBatch /\ k \notin flipped

\* C5: scrape_campground is never running or called for a campground whose
\* available flag is already true.
C5_CheckerOnlyForUnavailable ==
    pc = "scrape" => ~campgrounds[idx].available

C5_Witness ==
    /\ Running("for_campground")
    /\ cycle >= 2
    /\ idx > 1
    /\ campgrounds[idx - 1].available
    /\ (idx - 1) \notin flipped

\* a cycle has ended, by returning to the loop or by the process dying of
\* something other than the operator's interrupt
CycleEnded ==
    /\ cycle >= 1
    /\ \/ status = "running" /\ pc \in {"sleep", "date_check", "exit_gracefully", "sys_exit"}
       \/ status = "exited" /\ exitCause # "interrupt"

\* C6: a cycle in which some campground went from unavailable to available
\* has exactly one send_email_alert invocation, whose batch is exactly the
\* campgrounds that transitioned, all of them available at the call.
C6_OneBatchPerTransitionCycle ==
    (CycleEnded /\ flipped # {})
    => /\ Cardinality(InvocationsOfCycle(cycle)) = 1
       /\ \A n \in InvocationsOfCycle(cycle) :
             /\ Range(notified[n].batch) = flipped
             /\ notified[n].allAvailable

\* C7: a cycle without a transition has no send_email_alert invocation, and
\* no invocation ever carries an empty batch.
C7_NoBatchWithoutTransition ==
    /\ \A n \in DOMAIN notified : Len(notified[n].batch) > 0
    /\ flipped = {} => InvocationsOfCycle(cycle) = {}

C7_Witness ==
    /\ Running("sleep")
    /\ cycle >= 2
    /\ flipped = {}
    /\ \E k \in DOMAIN campgrounds : campgrounds[k].available
    /\ \E k \in DOMAIN campgrounds : ~campgrounds[k].available

\* C8: over the whole run every registry entry occurs at most once in all
\* the batches handed to send_email_alert taken together.
C8_AtMostOneNotification ==
    \A k \in DOMAIN campgrounds : Occurrences(k) <= 1

C8_Witness ==
    /\ Running("sleep")
    /\ cycle >= 3
    /\ Len(notified) >= 2
    /\ \E k \in DOMAIN campgrounds : Occurrences(k) = 1 /\ k \notin flipped

\* C9: a failing scrape_campground call counts as "not available this
\* cycle": it never ends the process.
C9_ScrapeErrorKeepsRunning ==
    ~(status = "exited" /\ exitCause = "scrape_error")

\* C10: a failed mail dispatch does not propagate: compare_availability
\* returns to the sleep of the loop, there is one dispatch attempt in the
\* cycle, and the campgrounds of the failed batch stay available and are in
\* no other batch.
C10_DispatchFailureContained ==
    /\ lastDispatch = "failed"
       => /\ pc \in {"sleep", "date_check", "exit_gracefully", "sys_exit"}
          /\ exitCause \in {"none", "interrupt", "date_passed"}
    /\ dispatches <= 1
    /\ \A k \in failedBatch : campgrounds[k].available /\ Occurrences(k) = 1

C10_Witness ==
    /\ Running("sleep")
    /\ cycle >= 2
    /\ failedBatch # {}
    /\ \E n \in DOMAIN notified :
          notified[n].cycle < cycle /\ Range(notified[n].batch) \subseteq failedBatch

----------------------------------------------------------------------------
(* Properties of termination and interruption (checked under Spec) *)

\* C11: on every exit through the date check or the operator's interrupt,
\* once the driver exists, it has been closed exactly once when the process
\* ends.
C11_SessionClosedExactlyOnce ==
    (status = "exited" /\ exitCause \in {"date_passed", "interrupt"} /\ driver # "none")
    => closeCount = 1

ShuttingDown == pc \in {"exit_gracefully", "sys_exit"}

\* C12: a date check that finds the start date passed goes to the shutdown
\* routine, which ends the process with status 0; no cycle is started, no
\* checker call and no notifier call is made from then on.
C12_DatePassedEndsLoop ==
    [][/\ (Running("date_check") /\ datePassed)
          => (pc' \in {"date_check", "exit_gracefully"} /\ cycle' = cycle)
       /\ ShuttingDown
          => /\ ShuttingDown'
             /\ cycle' = cycle
             /\ notified' = notified
             /\ campgrounds' = campgrounds
             /\ status' = "exited" => exitCode' = 0]_vars

C12_Witness ==
    /\ status = "exited"
    /\ exitCause = "date_passed"
    /\ exitCode = 0
    /\ cycle = 0
    /\ pc = "sys_exit"

\* C13: after the SIGINT handler has been invoked the process is ended with
\* status 0: no cycle starts, no checker call starts, nothing moves.
C13_InterruptEndsProcess ==
    [][/\ exitCause' = "interrupt" => (status' = "exited" /\ exitCode' = 0)
       /\ exitCause = "interrupt"
          => (pc' = pc /\ cycle' = cycle /\ idx' = idx /\ notified' = notified)]_vars

C13_Witness ==
    /\ status = "exited"
    /\ exitCause = "interrupt"
    /\ pc = "scrape"
    /\ cycle >= 2

\* C14: with both sources absent get_all_campgrounds_by_id raises: there is
\* no registry, the driver is never created, no cycle runs, and the process
\* ends with a non-zero status unless the operator interrupts first.
C14_NoSourcesNoStart ==
    (~user_facs.present /\ ~ridb_facilities.present)
    => /\ campgrounds = <<>>
       /\ driver = "none"
       /\ cycle = 0
       /\ pc = "build_registry"
       /\ exitCause \in {"none", "config_error", "interrupt"}
       /\ exitCause = "config_error" => exitCode # 0

C14_Witness ==
    /\ ~user_facs.present /\ ~ridb_facilities.present
    /\ status = "exited"
    /\ exitCause = "config_error"

\* C15: the polling loop is never entered with an empty registry (sources
\* that yield no facility end the startup with a configuration error).
C15_EmptyRegistryNeverPolled ==
    pc \in {"create_driver", "date_check", "for_campground", "sleep"}
    => Len(campgrounds) > 0

----------------------------------------------------------------------------
(* Properties of the shutdown routine alone (checked under SpecShutdown) *)

\* C16: exit_gracefully called when no session was created closes nothing,
\* and called more than once for the same session it does not close the
\* session a second time.
C16_ShutdownIdempotent ==
    /\ driver = "none" => closeCount = 0
    /\ closeCount <= 1

----------------------------------------------------------------------------
(* Properties of one cycle (checked under Spec) *)

\* C17: a campground is in the cycle's batch only with its flag already set,
\* and send_email_alert is invoked only when the pass over the registry is
\* over, with the complete set of the cycle's transitions.
C17_FlagThenBatchThenNotify ==
    /\ \A k \in Range(available) : campgrounds[k].available
    /\ pc = "append" => campgrounds[idx].available
    /\ \A n \in InvocationsOfCycle(cycle) :
          /\ idx > Len(campgrounds)
          /\ Range(notified[n].batch) = flipped

C17_Witness ==
    /\ Running("dispatch")
    /\ Len(available) >= 2
    /\ Len(notified) >= 1

\* C18: after the registry is built, a step changes nothing in it but the
\* flag of the campground whose check just returned True, from false to
\* true; names, ids, length and order stay, and a check that returned
\* False leaves the flag false.
C18_CycleOnlyFlipsFlags ==
    [][pc # "build_registry"
       => /\ Pairs(campgrounds)' = Pairs(campgrounds)
          /\ \A k \in DOMAIN campgrounds :
                campgrounds'[k].available # campgrounds[k].available
                => (pc = "set_available" /\ k = idx /\ campgrounds'[k].available)
          /\ (pc = "scrape" /\ pc' = "for_campground")
                => ~campgrounds'[idx].available]_vars

C18_Witness ==
    /\ Running("sleep")
    /\ flipped # {}
    /\ \E k \in DOMAIN campgrounds : ~campgrounds[k].available
    /\ \E k \in DOMAIN campgrounds : campgrounds[k].available /\ k \notin flipped

Terminated ==
    status = "exited" /\ exitCause \in {"date_passed", "interrupt"} /\ exitCode = 0

\* C19: with a source present, every call returning and the wall clock going
\* past the start date, the process eventually ends through exit_gracefully
\* with status 0 (checked under SpecLive).
C19_EventuallyTerminates ==
    ((user_facs.present \/ ridb_facilities.present) /\ [](exitCause # "scrape_error"))
    => <>Terminated

C19_Witness ==
    /\ status = "exited"
    /\ exitCause = "date_passed"
    /\ shutdownLog = <<Shutdown("None", "open")>>
    /\ cycle >= 2
    /\ flipped = {}
    /\ Len(campgrounds) > 0
    /\ \A k \in DOMAIN campgrounds : campgrounds[k].available

Notified == UNION {Range(notified[n].batch) : n \in DOMAIN notified}

\* C20: at every cycle boundary the campgrounds marked available are
\* exactly the campgrounds of the batches handed to send_email_alert so far.
C20_AvailableIffNotified ==
    pc \in {"sleep", "date_check"}
    => {k \in DOMAIN campgrounds : campgrounds[k].available} = Notified

C20_Witness ==
    /\ Running("sleep")
    /\ Len(notified) >= 2
    /\ \E k \in DOMAIN campgrounds : ~campgrounds[k].available

====
